---- MODULE Spec2Model ----
(***************************************************************************)
(* Model of the two NVDA add-ons of the repository:                        *)
(*   - windowsDictationSilence.GlobalPlugin (speech silencing around       *)
(*     Windows Voice Typing, Win+H), specification DictSpec;               *)
(*   - powerpnt.PowerPointWorker / PowerPointEventSink / AppModule (the    *)
(*     PowerPoint comments worker thread and its main-thread entry         *)
(*     points), specifications Spec (events and focus), NavSpec (the       *)
(*     scripts with the events), KeySpec (the scripts alone), ThreadSpec   *)
(*     (the main-thread entry points and the worker) and LiveSpec (fair    *)
(*     worker loop).                                                       *)
(*                                                                         *)
(* Assumptions: registering and unregistering the gesture filter succeed;  *)
(* NVDA processes one gesture at a time (decide_executeGesture, then the   *)
(* script); COM calls succeed and a presentation is open; each handler of  *)
(* the worker is one step, except that the last assignment of              *)
(* _initialize_com (self._initialized = True) is a step of its own, since  *)
(* the main thread writes the same field in request_initialize; stopping   *)
(* the worker and opening or focusing the Comments pane are left out.      *)
(***************************************************************************)
EXTENDS Integers, Sequences, FiniteSets, TLC

VARIABLES
    \* ---- dictation plugin: GlobalPlugin fields and NVDA state ----
    speechMode,               \* speech.getState().speechMode (NVDA global)
    previous_speech_mode,     \* GlobalPlugin._previous_speech_mode
    voice_typing_active,      \* GlobalPlugin._voice_typing_active
    gesture_filter_installed, \* GlobalPlugin._gesture_filter_installed
    filterRegistered,         \* _gesture_filter is in inputCore.decide_executeGesture
    pluginLoaded,             \* the GlobalPlugin instance exists (not terminated)
    \* ---- dictation plugin: the key press NVDA is processing ----
    phase,                    \* "idle" | "decided" (filter phase done) | "scripted"
    key,                      \* the gesture of the press
    pressMode,                \* speech mode when the key was pressed
    pressActive,              \* _voice_typing_active when the key was pressed
    filterCalled,             \* _gesture_filter was called for the press
    filterReturn,             \* the decision for the press (True without a filter)
    scriptRun,                \* script_toggleVoiceTyping ran for the press
    sends,                    \* gesture.send() calls made for the press
    modeBeforeActivation,     \* speech mode on entry to the last activation
    \* ---- PowerPoint (the COM object model the worker queries live) ----
    activeWindow,             \* Application.ActiveWindow
    slideOf,                  \* window -> window.View.Slide.SlideIndex
    viewType,                 \* window -> window.ViewType
    slideShowRunning,         \* Application.SlideShowWindows.Count > 0
    \* ---- PowerPointWorker fields ----
    ppt_app,                  \* _ppt_app is set
    event_sink,               \* _event_sink / _event_connection are set
    sink_last_slide_index,    \* PowerPointEventSink._last_slide_index
    initialized,              \* _initialized
    last_announced_slide,     \* _last_announced_slide
    current_window,           \* _current_window (NoWindow for None)
    nav_request,              \* _nav_request (NoRequest for None)
    read_notes_request,       \* _read_notes_request
    from_comments_navigation, \* _from_comments_navigation
    has_received_focus,       \* _has_received_focus
    in_slideshow,             \* _in_slideshow
    pc,                       \* where the worker thread is in _run
    \* ---- what the last step did ----
    announced,                \* messages the last worker step queued, in order
    gotoCalls,                \* GotoSlide calls of the last worker step
    lastEvent,                \* slide index of the WindowSelectionChange the last
                              \* worker step delivered (NoSlide: it delivered none)
    keySent,                  \* gesture.send() calls made by the last script
    workerExists,             \* AppModule._worker is not None
    navPending                \* directions passed to request_navigate for which
                              \* _navigate_slide has not been called yet

dictVars == <<speechMode, previous_speech_mode, voice_typing_active,
              gesture_filter_installed, filterRegistered, pluginLoaded,
              phase, key, pressMode, pressActive, filterCalled, filterReturn,
              scriptRun, sends, modeBeforeActivation>>

pptVars == <<activeWindow, slideOf, viewType, slideShowRunning, ppt_app,
             event_sink, sink_last_slide_index, initialized,
             last_announced_slide, current_window, nav_request,
             read_notes_request, from_comments_navigation, has_received_focus,
             in_slideshow, pc, announced, gotoCalls, lastEvent, keySent,
             workerExists, navPending>>

vars == <<dictVars, pptVars>>

None == "None"

\* speech.SpeechMode of NVDA 2024.1+: off, beeps, talk, onDemand
Off == "off"
SpeechModes == {"off", "beeps", "talk", "onDemand"}

WinH == "windows+h"
SpeechModeKey == "NVDA+s"
OtherKey == "a"
Keys == {WinH, SpeechModeKey, OtherKey}

----------------------------------------------------------------------------
(* GlobalPlugin: the methods, as functions on the plugin/NVDA state record. *)

DState ==
    [mode |-> speechMode, prev |-> previous_speech_mode,
     active |-> voice_typing_active, installed |-> gesture_filter_installed,
     registered |-> filterRegistered, sent |-> sends]

\* GlobalPlugin.__init__
PluginInit(s) ==
    [s EXCEPT !.prev = None, !.active = FALSE, !.installed = FALSE]

\* GlobalPlugin._install_gesture_filter
InstallGestureFilter(s) ==
    IF s.installed THEN s
    ELSE [s EXCEPT !.registered = TRUE, !.installed = TRUE]

\* GlobalPlugin._remove_gesture_filter
RemoveGestureFilter(s) ==
    IF ~s.installed THEN s
    ELSE [s EXCEPT !.registered = FALSE, !.installed = FALSE]

\* faulty variant: the speech mode is read after it was switched off
StartVoiceTypingMode_SaveAfterOff(s) ==
    LET s1 == [s EXCEPT !.mode = Off]
        s2 == [s1 EXCEPT !.prev = s1.mode]
        s3 == [s2 EXCEPT !.active = TRUE]
    IN  InstallGestureFilter(s3)

\* GlobalPlugin._start_voice_typing_mode
StartVoiceTypingMode(s) ==
    LET s1 == [s EXCEPT !.prev = s.mode]
        s2 == [s1 EXCEPT !.mode = Off]
        s3 == [s2 EXCEPT !.active = TRUE]
    IN  InstallGestureFilter(s3)

\* faulty variant: the saved mode is cleared before it is restored
EndVoiceTypingMode_NoRestore(s) ==
    LET s1 == RemoveGestureFilter(s)
        s2 == [s1 EXCEPT !.active = FALSE]
    IN  [s2 EXCEPT !.prev = None]

\* GlobalPlugin._end_voice_typing_mode
EndVoiceTypingMode(s) ==
    LET s1 == RemoveGestureFilter(s)
        s2 == [s1 EXCEPT !.active = FALSE]
    IN  IF s2.prev # None
        THEN [s2 EXCEPT !.mode = s2.prev, !.prev = None]
        ELSE s2

\* faulty variant: the key that closes Voice Typing is swallowed
GestureFilter_Swallow(s) ==
    IF ~s.active THEN [state |-> s, ret |-> TRUE]
    ELSE [state |-> EndVoiceTypingMode(s), ret |-> FALSE]

\* GlobalPlugin._gesture_filter: the new state and the returned decision
GestureFilter(s) ==
    IF ~s.active THEN [state |-> s, ret |-> TRUE]
    ELSE [state |-> EndVoiceTypingMode(s), ret |-> TRUE]

\* GlobalPlugin.script_toggleVoiceTyping: gesture.send(), then start if inactive
ScriptToggleVoiceTyping(s) ==
    LET s1 == [s EXCEPT !.sent = s.sent + 1]
    IN  IF ~s1.active THEN StartVoiceTypingMode(s1) ELSE s1

\* faulty variant: terminate removes the filter but forgets to restore speech
TerminatePlugin_NoRestore(s) ==
    IF s.installed THEN RemoveGestureFilter(s) ELSE s

\* GlobalPlugin.terminate
TerminatePlugin(s) ==
    LET s1 == IF s.installed THEN RemoveGestureFilter(s) ELSE s
    IN  IF s1.active /\ s1.prev # None
        THEN [s1 EXCEPT !.mode = s1.prev]
        ELSE s1

\* NVDA's own speech-mode script (NVDA+S): cycles off, beeps, talk, on-demand
CycleSpeechMode(m) ==
    CASE m = "off" -> "beeps"
      [] m = "beeps" -> "talk"
      [] m = "talk" -> "onDemand"
      [] OTHER -> "off"

SetDState(s) ==
    /\ speechMode' = s.mode
    /\ previous_speech_mode' = s.prev
    /\ voice_typing_active' = s.active
    /\ gesture_filter_installed' = s.installed
    /\ filterRegistered' = s.registered
    /\ sends' = s.sent

----------------------------------------------------------------------------
(* NVDA's handling of one key press: inputCore.executeGesture first asks   *)
(* decide_executeGesture (the registered filters), then runs the script    *)
(* bound to the gesture.                                                   *)

DictInit ==
    /\ speechMode \in SpeechModes
    /\ previous_speech_mode = None
    /\ voice_typing_active = FALSE
    /\ gesture_filter_installed = FALSE
    /\ filterRegistered = FALSE
    /\ pluginLoaded = TRUE
    /\ phase = "idle"
    /\ key = OtherKey
    /\ pressMode = speechMode
    /\ pressActive = FALSE
    /\ filterCalled = FALSE
    /\ filterReturn = TRUE
    /\ scriptRun = FALSE
    /\ sends = 0
    /\ modeBeforeActivation = None

\* A key is pressed: the decide phase, which calls _gesture_filter when registered.
PressKey(k) ==
    /\ phase # "decided"
    /\ LET s0 == [DState EXCEPT !.sent = 0]
           f  == GestureFilter(s0)
       IN  IF filterRegistered
           THEN SetDState(f.state) /\ filterReturn' = f.ret
           ELSE SetDState(s0) /\ filterReturn' = TRUE
    /\ filterCalled' = filterRegistered
    /\ phase' = "decided"
    /\ key' = k
    /\ pressMode' = speechMode
    /\ pressActive' = voice_typing_active
    /\ scriptRun' = FALSE
    /\ UNCHANGED <<pluginLoaded, modeBeforeActivation, pptVars>>

\* The press was allowed and is Win+H: script_toggleVoiceTyping runs.
RunToggleScript ==
    /\ phase = "decided" /\ filterReturn
    /\ key = WinH /\ pluginLoaded
    /\ SetDState(ScriptToggleVoiceTyping(DState))
    /\ scriptRun' = TRUE
    /\ modeBeforeActivation' =
          IF ~voice_typing_active THEN speechMode ELSE modeBeforeActivation
    /\ phase' = "scripted"
    /\ UNCHANGED <<pluginLoaded, key, pressMode, pressActive, filterCalled,
                   filterReturn, pptVars>>

\* The press was allowed and is NVDA+S: NVDA's speech-mode script runs.
RunSpeechModeScript ==
    /\ phase = "decided" /\ filterReturn
    /\ key = SpeechModeKey
    /\ speechMode' = CycleSpeechMode(speechMode)
    /\ phase' = "scripted"
    /\ UNCHANGED <<previous_speech_mode, voice_typing_active,
                   gesture_filter_installed, filterRegistered, pluginLoaded,
                   key, pressMode, pressActive, filterCalled, filterReturn, scriptRun, sends,
                   modeBeforeActivation, pptVars>>

\* Any other outcome: no script of interest (the key goes to the system), or
\* the decider refused the gesture and NVDA drops it.
PassKey ==
    /\ phase = "decided"
    /\ \/ ~filterReturn
       \/ key = OtherKey
       \/ key = WinH /\ ~pluginLoaded
    /\ phase' = "scripted"
    /\ UNCHANGED <<speechMode, previous_speech_mode, voice_typing_active,
                   gesture_filter_installed, filterRegistered, pluginLoaded,
                   key, pressMode, pressActive, filterCalled, filterReturn, scriptRun, sends,
                   modeBeforeActivation, pptVars>>

\* NVDA unloads the plugin: GlobalPlugin.terminate()
Terminate ==
    /\ pluginLoaded
    /\ SetDState(TerminatePlugin(DState))
    /\ pluginLoaded' = FALSE
    /\ UNCHANGED <<phase, key, pressMode, pressActive, filterCalled, filterReturn, scriptRun,
                   modeBeforeActivation, pptVars>>

\* NVDA reloads plugins: a fresh GlobalPlugin instance
Reload ==
    /\ ~pluginLoaded
    /\ SetDState(PluginInit(DState))
    /\ pluginLoaded' = TRUE
    /\ UNCHANGED <<phase, key, pressMode, pressActive, filterCalled, filterReturn, scriptRun,
                   modeBeforeActivation, pptVars>>

DictNext ==
    \/ \E k \in Keys : PressKey(k)
    \/ RunToggleScript
    \/ RunSpeechModeScript
    \/ PassKey
    \/ Terminate
    \/ Reload

----------------------------------------------------------------------------
(* PowerPoint comments add-on: the presentation data the worker reads.     *)

NumWindows == 2      \* open presentations (one DocumentWindow each)
NumSlides == 2       \* slides of each presentation
MaxPending == 2     \* requests that may be waiting for _navigate_slide
Windows == 1..NumWindows
Slides == 1..NumSlides

NoWindow == 0        \* None, for a window reference
NoRequest == 0       \* None, for _nav_request
NoSlide == -1        \* the "no slide" index of the worker and the sink

PP_VIEW_NORMAL == 9
PP_VIEW_SLIDE_SORTER == 5
ViewTypes == {PP_VIEW_NORMAL, PP_VIEW_SLIDE_SORTER}

\* The content of the open presentations (fixed during a run): the number of
\* comments of a slide, whether it has a title, whether its notes hold ****.
SlideId(w, i) == (w - 1) * NumSlides + i
CommentCount(w, i) == SlideId(w, i) % 3
HasTitle(w, i) == SlideId(w, i) % 2 = 1
NotesMarked(w, i) == SlideId(w, i) % 4 \in {2, 3}

PState ==
    [aw |-> activeWindow, slide |-> slideOf, view |-> viewType,
     show |-> slideShowRunning, app |-> ppt_app, sink |-> event_sink,
     sinkLast |-> sink_last_slide_index, init |-> initialized,
     last |-> last_announced_slide, cw |-> current_window,
     nav |-> nav_request, notes |-> read_notes_request,
     from |-> from_comments_navigation, has |-> has_received_focus,
     inShow |-> in_slideshow, pend |-> navPending,
     out |-> <<>>, goto |-> <<>>]

SetFields(s) ==
    /\ activeWindow' = s.aw
    /\ slideOf' = s.slide
    /\ viewType' = s.view
    /\ slideShowRunning' = s.show
    /\ ppt_app' = s.app
    /\ event_sink' = s.sink
    /\ sink_last_slide_index' = s.sinkLast
    /\ initialized' = s.init
    /\ last_announced_slide' = s.last
    /\ current_window' = s.cw
    /\ nav_request' = s.nav
    /\ read_notes_request' = s.notes
    /\ from_comments_navigation' = s.from
    /\ has_received_focus' = s.has
    /\ in_slideshow' = s.inShow
    /\ navPending' = s.pend

\* a step of the worker thread: what it queued and called is recorded
\* (s is bound to its value once, then assigned)
WorkerStep(s) ==
    \E st \in {s} :
        /\ SetFields(st)
        /\ announced' = st.out
        /\ gotoCalls' = st.goto

\* a step of the main thread or of the user
MainStep(s) ==
    /\ SetFields(s)
    /\ UNCHANGED <<announced, gotoCalls, lastEvent>>

----------------------------------------------------------------------------
(* PowerPointWorker: the methods, as functions on the state record.        *)

\* PowerPointWorker._announce: queueFunction(eventQueue, ui.message, message)
Announce(s, msg) == [s EXCEPT !.out = Append(s.out, msg)]

\* PowerPointWorker._get_window
GetWindow(s) ==
    IF s.cw # NoWindow THEN s.cw
    ELSE IF s.app THEN s.aw ELSE NoWindow

\* PowerPointWorker._get_current_view (NoWindow stands for None)
GetCurrentView(s) ==
    LET window == GetWindow(s)
    IN  IF window # NoWindow THEN s.view[window] ELSE NoWindow

\* PowerPointWorker._get_current_slide_index
GetCurrentSlideIndex(s) ==
    LET window == GetWindow(s)
    IN  IF window # NoWindow THEN s.slide[window] ELSE NoSlide

\* PowerPointWorker._get_slide_title: TRUE when a non-empty title is read
GetSlideTitle(s) ==
    LET window == GetWindow(s)
    IN  window # NoWindow /\ HasTitle(window, s.slide[window])

\* PowerPointWorker._get_comments_on_current_slide: the number of comments
GetCommentsOnCurrentSlide(s) ==
    LET window == GetWindow(s)
    IN  IF window = NoWindow THEN 0
        ELSE CommentCount(window, s.slide[window])

\* PowerPointWorker._get_slide_notes: the window whose slide's notes are read.
\* In a slide show the SlideShowWindow shows the active presentation.
NotesWindow(s) ==
    IF s.inShow /\ s.show THEN s.aw ELSE GetWindow(s)

\* PowerPointWorker._has_meeting_notes
HasMeetingNotes(s) ==
    LET window == NotesWindow(s)
    IN  window # NoWindow /\ NotesMarked(window, s.slide[window])

\* PowerPointWorker._is_slideshow_running
IsSlideshowRunning(s) == s.app /\ s.show

\* PowerPointWorker._ensure_normal_view
EnsureNormalView(s) ==
    LET window == GetWindow(s)
        current_view == GetCurrentView(s)
    IN  IF current_view # NoWindow /\ current_view # PP_VIEW_NORMAL
           /\ window # NoWindow
        THEN Announce([s EXCEPT !.view[window] = PP_VIEW_NORMAL],
                      <<"Switched to Normal view", 0>>)
        ELSE s

\* faulty variant: the notes status is announced before the comment status
AnnounceSlideComments_NotesFirst(s) ==
    LET actually == IsSlideshowRunning(s)
        s1 == [s EXCEPT !.inShow = actually]
        slide_index == GetCurrentSlideIndex(s1)
        s2 == IF ~s1.from THEN s1
              ELSE LET a == IF slide_index <= 0 THEN s1
                            ELSE IF GetSlideTitle(s1)
                                 THEN Announce(s1, <<"N: title", slide_index>>)
                                 ELSE Announce(s1, <<"Slide N", slide_index>>)
                   IN  [a EXCEPT !.from = FALSE]
        s3 == IF HasMeetingNotes(s2) THEN Announce(s2, <<"has notes", 0>>)
              ELSE s2
        count == GetCommentsOnCurrentSlide(s3)
        s4 == IF count = 0 THEN Announce(s3, <<"No comments", 0>>)
              ELSE Announce(s3, <<"Has N comments", count>>)
    IN  IF actually THEN s1 ELSE s4

\* PowerPointWorker._announce_slide_comments
AnnounceSlideComments(s) ==
    LET actually == IsSlideshowRunning(s)
        s1 == [s EXCEPT !.inShow = actually]
        slide_index == GetCurrentSlideIndex(s1)
        s2 == IF ~s1.from THEN s1
              ELSE LET a == IF slide_index <= 0 THEN s1
                            ELSE IF GetSlideTitle(s1)
                                 THEN Announce(s1, <<"N: title", slide_index>>)
                                 ELSE Announce(s1, <<"Slide N", slide_index>>)
                   IN  [a EXCEPT !.from = FALSE]
        count == GetCommentsOnCurrentSlide(s2)
        s3 == IF count = 0 THEN Announce(s2, <<"No comments", 0>>)
              ELSE Announce(s2, <<"Has N comments", count>>)
        s4 == IF HasMeetingNotes(s3) THEN Announce(s3, <<"has notes", 0>>)
              ELSE s3
    IN  IF actually THEN s1 ELSE s4

\* PowerPointWorker._announce_slide_notes
AnnounceSlideNotes(s) ==
    IF HasMeetingNotes(s)
    THEN Announce(s, <<"notes text", s.slide[NotesWindow(s)]>>)
    ELSE Announce(s, <<"No notes", 0>>)

\* faulty variant: the focus check of v0.0.54 is missing
CheckInitialSlide_NoFocusCheck(s) ==
    LET current_index == GetCurrentSlideIndex(s)
    IN  IF current_index <= 0 THEN s
        ELSE IF current_index = s.last THEN s
        ELSE AnnounceSlideComments([s EXCEPT !.last = current_index])

\* faulty variant: the same-slide check of v0.0.23 is missing
CheckInitialSlide_NoSameSlideCheck(s) ==
    LET current_index == GetCurrentSlideIndex(s)
    IN  IF current_index <= 0 THEN s
        ELSE IF ~s.has THEN s
        ELSE AnnounceSlideComments([s EXCEPT !.last = current_index])

\* PowerPointWorker._check_initial_slide
CheckInitialSlide(s) ==
    LET current_index == GetCurrentSlideIndex(s)
    IN  IF current_index <= 0 THEN s
        ELSE IF ~s.has THEN s
        ELSE IF current_index = s.last THEN s
        ELSE AnnounceSlideComments([s EXCEPT !.last = current_index])

\* PowerPointWorker._connect_events: a new sink (its _last_slide_index is -1)
ConnectEvents(s) ==
    IF ~s.app THEN s
    ELSE [s EXCEPT !.sink = TRUE, !.sinkLast = NoSlide]

\* PowerPointWorker._initialize_com up to and including _check_initial_slide,
\* with PowerPoint running and a presentation open
InitializeComBody(s) ==
    LET s1 == [s EXCEPT !.app = TRUE]
    IN  CheckInitialSlide(ConnectEvents(EnsureNormalView(s1)))

\* faulty variant: the duplicate check is missing
OnSlideChangedEvent_NoDuplicateCheck(s, slide_index, window) ==
    LET s1 == IF window # NoWindow THEN [s EXCEPT !.cw = window]
              ELSE IF s.cw = NoWindow /\ s.app THEN [s EXCEPT !.cw = s.aw]
              ELSE s
    IN  AnnounceSlideComments(
            EnsureNormalView([s1 EXCEPT !.last = slide_index]))

\* PowerPointWorker.on_slide_changed_event
OnSlideChangedEvent(s, slide_index, window) ==
    LET s1 == IF window # NoWindow THEN [s EXCEPT !.cw = window]
              ELSE IF s.cw = NoWindow /\ s.app THEN [s EXCEPT !.cw = s.aw]
              ELSE s
    IN  IF slide_index = s1.last THEN s1
        ELSE AnnounceSlideComments(
                 EnsureNormalView([s1 EXCEPT !.last = slide_index]))

\* PowerPointEventSink.WindowSelectionChange, sel.Parent being window w
WindowSelectionChange(s, w) ==
    IF ~s.app THEN s
    ELSE LET current_index == s.slide[w]
         IN  IF current_index # s.sinkLast
             THEN OnSlideChangedEvent([s EXCEPT !.sinkLast = current_index],
                                      current_index, w)
             ELSE s

\* PowerPointWorker.on_slideshow_begin
OnSlideshowBegin(s) == [s EXCEPT !.inShow = TRUE]

\* PowerPointWorker.on_slideshow_end
OnSlideshowEnd(s) == IF s.inShow THEN [s EXCEPT !.inShow = FALSE] ELSE s

\* PowerPointWorker.on_slideshow_slide_changed
OnSlideshowSlideChanged(s, slide_index) ==
    IF slide_index = s.last THEN s ELSE [s EXCEPT !.last = slide_index]

\* PowerPointEventSink.SlideShowNextSlide
SlideShowNextSlide(s, slide_index) ==
    IF slide_index # s.sinkLast
    THEN OnSlideshowSlideChanged([s EXCEPT !.sinkLast = slide_index], slide_index)
    ELSE s

\* faulty variant: the upper bound is not tested
NavigateSlide_NoUpperBound(s, direction) ==
    LET window == GetWindow(s)
    IN  IF window = NoWindow
        THEN Announce(s, <<"Cannot navigate - no active presentation", 0>>)
        ELSE LET new_index == s.slide[window] + direction
             IN  IF new_index < 1 THEN Announce(s, <<"First slide", 0>>)
                 ELSE [s EXCEPT !.slide[window] = new_index,
                                !.goto = Append(s.goto, new_index)]

\* PowerPointWorker._navigate_slide
NavigateSlide(s, direction) ==
    LET window == GetWindow(s)
    IN  IF window = NoWindow
        THEN Announce(s, <<"Cannot navigate - no active presentation", 0>>)
        ELSE LET current_index == s.slide[window]
                 total_slides == NumSlides
                 new_index == current_index + direction
             IN  IF new_index < 1 THEN Announce(s, <<"First slide", 0>>)
                 ELSE IF new_index > total_slides
                 THEN Announce(s, <<"Last slide", 0>>)
                 ELSE [s EXCEPT !.slide[window] = new_index,
                                !.goto = Append(s.goto, new_index)]

\* PowerPointWorker._navigate_slide: the value it returns
NavigateSlideReturn(s, direction) ==
    LET window == GetWindow(s)
    IN  IF window = NoWindow THEN FALSE
        ELSE LET new_index == s.slide[window] + direction
             IN  IF new_index < 1 THEN FALSE
                 ELSE IF new_index > NumSlides THEN FALSE
                 ELSE TRUE

\* the pending requests once _navigate_slide(direction) has been called
RECURSIVE Served(_, _)
Served(pending, direction) ==
    IF pending = <<>> THEN <<>>
    ELSE IF Head(pending) = direction THEN Tail(pending)
    ELSE <<Head(pending)>> \o Served(Tail(pending), direction)

\* faulty variant: the main thread navigates itself (as before v0.0.23)
RequestNavigate_Direct(s, direction, from_comments_pane) ==
    NavigateSlide([s EXCEPT !.from = from_comments_pane], direction)

\* PowerPointWorker.request_initialize
RequestInitialize(s) == [s EXCEPT !.has = TRUE, !.init = FALSE]

\* PowerPointWorker.request_navigate
RequestNavigate(s, direction, from_comments_pane) ==
    [s EXCEPT !.nav = direction, !.from = from_comments_pane,
              !.pend = Append(@, direction)]

\* PowerPointWorker.request_read_notes
RequestReadNotes(s) == [s EXCEPT !.notes = TRUE]

----------------------------------------------------------------------------
(* AppModule: the focus test and the scripts (main thread).                *)

\* A focus object is the chain of UIAAutomationIds from the focused element
\* up through its parents; an id is <<prefix, rest>> so that the exact and
\* the startswith comparisons of the code can be told apart.
WalkDepth == 15
OtherId == <<"SlidePane", "">>
CardId == <<"cardRoot_", "7">>
IsPaneId(id) ==
    \/ id = <<"NewCommentButton", "">>
    \/ id = <<"CommentsList", "">>
    \/ id[1] = "cardRoot_"
    \/ id[1] = "firstPaneElement"

RECURSIVE WalkParents(_, _)
WalkParents(chain, i) ==
    IF i > WalkDepth \/ i > Len(chain) THEN FALSE
    ELSE IF IsPaneId(chain[i]) THEN TRUE
    ELSE WalkParents(chain, i + 1)

\* AppModule._is_in_comments_pane (an empty chain: no focus object)
IsInCommentsPane(chain) == WalkParents(chain, 1)

FocusChains ==
    { <<>>,
      <<OtherId>>,
      <<CardId>>,
      <<<<"NewCommentButton", "">>>>,
      <<<<"NewCommentButton", "2">>, OtherId>>,
      <<OtherId, OtherId, <<"firstPaneElement", "Root">>>>,
      [i \in 1..WalkDepth |-> OtherId] \o <<<<"CommentsList", "">>>> }

NoCall == <<NoRequest, FALSE>>

\* faulty variant: the key is also sent to PowerPoint when a navigation is requested
ScriptSlideFromComments_AlwaysSend(s, chain, worker, direction) ==
    IF IsInCommentsPane(chain) /\ worker
    THEN [state |-> RequestNavigate(s, direction, TRUE), sent |-> 1,
          req |-> <<direction, TRUE>>]
    ELSE [state |-> s, sent |-> 1, req |-> NoCall]

\* AppModule.script_nextSlideFromComments (direction 1) and
\* AppModule.script_previousSlideFromComments (direction -1): the new worker
\* state, the gesture.send() calls made and the request_navigate call made
ScriptSlideFromComments(s, chain, worker, direction) ==
    IF IsInCommentsPane(chain) /\ worker
    THEN [state |-> RequestNavigate(s, direction, TRUE), sent |-> 0,
          req |-> <<direction, TRUE>>]
    ELSE [state |-> s, sent |-> 1, req |-> NoCall]

----------------------------------------------------------------------------
(* The PowerPoint add-on as a state machine: the worker thread (_run), the *)
(* main thread (AppModule events and scripts) and the user in PowerPoint.  *)

PptInit ==
    /\ activeWindow \in Windows
    /\ slideOf \in [Windows -> Slides]
    /\ viewType = [w \in Windows |-> PP_VIEW_NORMAL]
    /\ slideShowRunning = FALSE
    /\ ppt_app = FALSE
    /\ event_sink = FALSE
    /\ sink_last_slide_index = NoSlide
    /\ initialized = FALSE
    /\ last_announced_slide = NoSlide
    /\ current_window = NoWindow
    /\ nav_request = NoRequest
    /\ read_notes_request = FALSE
    /\ from_comments_navigation = FALSE
    /\ has_received_focus = FALSE
    /\ in_slideshow = FALSE
    /\ pc = "start"
    /\ announced = <<>>
    /\ gotoCalls = <<>>
    /\ lastEvent = NoSlide
    /\ keySent = 0
    /\ workerExists \in BOOLEAN
    /\ navPending = <<>>

\* ---- worker thread ----

\* _run: _initialize_com (first connection, or re-initialization in the loop)
\* up to the return of _check_initial_slide
WorkerInitializeCom ==
    /\ workerExists /\ pc \in {"start", "reinit"}
    /\ WorkerStep(InitializeComBody(PState))
    /\ pc' = IF pc = "start" THEN "startDone" ELSE "reinitDone"
    /\ lastEvent' = NoSlide
    /\ UNCHANGED <<keySent, workerExists, dictVars>>

\* _initialize_com, last statement: self._initialized = True
WorkerSetInitialized ==
    /\ pc \in {"startDone", "reinitDone"}
    /\ WorkerStep([PState EXCEPT !.init = TRUE])
    /\ pc' = IF pc = "startDone" THEN "pump" ELSE "requests"
    /\ lastEvent' = NoSlide
    /\ UNCHANGED <<keySent, workerExists, dictVars>>

\* _pump_messages delivers a WindowSelectionChange event of window w
EventWindowSelectionChange(w) ==
    /\ pc = "pump" /\ event_sink
    /\ WorkerStep(WindowSelectionChange(PState, w))
    /\ lastEvent' = slideOf[w]
    /\ UNCHANGED <<pc, keySent, workerExists, dictVars>>

\* _pump_messages delivers SlideShowBegin
EventSlideShowBegin ==
    /\ pc = "pump" /\ event_sink /\ slideShowRunning
    /\ WorkerStep(OnSlideshowBegin(PState))
    /\ lastEvent' = NoSlide
    /\ UNCHANGED <<pc, keySent, workerExists, dictVars>>

\* _pump_messages delivers SlideShowEnd
EventSlideShowEnd ==
    /\ pc = "pump" /\ event_sink /\ ~slideShowRunning
    /\ WorkerStep(OnSlideshowEnd(PState))
    /\ lastEvent' = NoSlide
    /\ UNCHANGED <<pc, keySent, workerExists, dictVars>>

\* _pump_messages delivers SlideShowNextSlide (the show is on the active
\* presentation's slide)
EventSlideShowNextSlide ==
    /\ pc = "pump" /\ event_sink /\ slideShowRunning
    /\ WorkerStep(SlideShowNextSlide(PState, slideOf[activeWindow]))
    /\ lastEvent' = NoSlide
    /\ UNCHANGED <<pc, keySent, workerExists, dictVars>>

\* _run: _pump_messages returns; `if not self._initialized` is evaluated
WorkerPumpDone ==
    /\ pc = "pump"
    /\ WorkerStep(PState)
    /\ pc' = IF ~initialized THEN "reinit" ELSE "requests"
    /\ lastEvent' = NoSlide
    /\ UNCHANGED <<keySent, workerExists, dictVars>>

\* _run: the navigation request and then the read-notes request, if any, are
\* taken and executed; the loop goes back to _pump_messages
WorkerRequests ==
    /\ pc = "requests"
    /\ LET s1 == IF nav_request # NoRequest
                 THEN NavigateSlide(
                          [PState EXCEPT !.nav = NoRequest,
                                         !.pend = Served(@, nav_request)],
                          nav_request)
                 ELSE PState
           s2 == IF s1.notes
                 THEN AnnounceSlideNotes([s1 EXCEPT !.notes = FALSE])
                 ELSE s1
       IN  WorkerStep(s2)
    /\ lastEvent' = NoSlide
    /\ pc' = "pump"
    /\ UNCHANGED <<keySent, workerExists, dictVars>>

\* ---- main thread ----

\* AppModule.event_appModule_gainFocus
AppGainFocus ==
    /\ workerExists
    /\ MainStep(RequestInitialize(PState))
    /\ UNCHANGED <<pc, keySent, workerExists, dictVars>>

\* AppModule.script_nextSlideFromComments (PageDown), focus being `chain`
ScriptNextSlide(chain) ==
    /\ Len(navPending) < MaxPending
    /\ LET r == ScriptSlideFromComments(PState, chain, workerExists, 1)
       IN  /\ MainStep(r.state)
           /\ keySent' = r.sent
    /\ UNCHANGED <<pc, workerExists, dictVars>>

\* AppModule.script_previousSlideFromComments (PageUp), focus being `chain`
ScriptPreviousSlide(chain) ==
    /\ Len(navPending) < MaxPending
    /\ LET r == ScriptSlideFromComments(PState, chain, workerExists, -1)
       IN  /\ MainStep(r.state)
           /\ keySent' = r.sent
    /\ UNCHANGED <<pc, workerExists, dictVars>>

\* AppModule.script_readSlideNotes (Ctrl+Alt+N)
ScriptReadSlideNotes ==
    /\ MainStep(IF workerExists THEN RequestReadNotes(PState) ELSE PState)
    /\ keySent' = 0
    /\ UNCHANGED <<pc, workerExists, dictVars>>

\* ---- the user in PowerPoint ----

\* The user moves window w to slide i (thumbnails, PageDown in the slide, ...)
UserGotoSlide(w, i) ==
    /\ slideOf[w] # i
    /\ MainStep([PState EXCEPT !.slide[w] = i])
    /\ UNCHANGED <<pc, keySent, workerExists, dictVars>>

\* The user switches to the other open presentation
UserActivatesWindow(w) ==
    /\ activeWindow # w
    /\ MainStep([PState EXCEPT !.aw = w])
    /\ UNCHANGED <<pc, keySent, workerExists, dictVars>>

\* The user puts window w into Slide Sorter view
UserChangesView(w) ==
    /\ viewType[w] = PP_VIEW_NORMAL
    /\ MainStep([PState EXCEPT !.view[w] = PP_VIEW_SLIDE_SORTER])
    /\ UNCHANGED <<pc, keySent, workerExists, dictVars>>

\* The user starts or ends a slide show
UserTogglesSlideShow ==
    /\ MainStep([PState EXCEPT !.show = ~slideShowRunning])
    /\ UNCHANGED <<pc, keySent, workerExists, dictVars>>

\* The worker with its events, the focus event and the user in PowerPoint
Next ==
    \/ WorkerInitializeCom
    \/ WorkerSetInitialized
    \/ WorkerPumpDone
    \/ WorkerRequests
    \/ \E w \in Windows : EventWindowSelectionChange(w)
    \/ EventSlideShowBegin
    \/ EventSlideShowEnd
    \/ EventSlideShowNextSlide
    \/ AppGainFocus
    \/ \E w \in Windows, i \in Slides : UserGotoSlide(w, i)
    \/ \E w \in Windows : UserActivatesWindow(w)
    \/ \E w \in Windows : UserChangesView(w)
    \/ UserTogglesSlideShow

\* The scripts of the main thread with the worker that serves their requests
\* (Normal view, no slide show)
NavNext ==
    \/ WorkerInitializeCom
    \/ WorkerSetInitialized
    \/ WorkerPumpDone
    \/ WorkerRequests
    \/ \E w \in Windows : EventWindowSelectionChange(w)
    \/ \E c \in FocusChains : ScriptNextSlide(c)
    \/ \E c \in FocusChains : ScriptPreviousSlide(c)
    \/ ScriptReadSlideNotes
    \/ \E w \in Windows : UserActivatesWindow(w)

\* The key presses alone: the three scripts with the worker loop that serves
\* their requests, PowerPoint otherwise left alone
KeyNext ==
    \/ WorkerInitializeCom
    \/ WorkerSetInitialized
    \/ WorkerPumpDone
    \/ WorkerRequests
    \/ \E c \in FocusChains : ScriptNextSlide(c)
    \/ \E c \in FocusChains : ScriptPreviousSlide(c)
    \/ ScriptReadSlideNotes

\* The two threads alone: every main-thread entry point of the worker with
\* the worker loop that serves them
ThreadNext ==
    \/ WorkerInitializeCom
    \/ WorkerSetInitialized
    \/ WorkerPumpDone
    \/ WorkerRequests
    \/ AppGainFocus
    \/ \E c \in FocusChains : ScriptNextSlide(c)
    \/ \E c \in FocusChains : ScriptPreviousSlide(c)
    \/ ScriptReadSlideNotes

\* The run of the liveness claim: no slide show, and selection changes come
\* from the user, who needs PowerPoint focused to make them.
LiveNext ==
    \/ WorkerInitializeCom
    \/ WorkerSetInitialized
    \/ WorkerPumpDone
    \/ WorkerRequests
    \/ \E w \in Windows : has_received_focus /\ EventWindowSelectionChange(w)
    \/ AppGainFocus
    \/ \E w \in Windows, i \in Slides : has_received_focus /\ UserGotoSlide(w, i)
    \/ \E w \in Windows : has_received_focus /\ UserActivatesWindow(w)

\* The dictation plugin, PowerPoint left as it starts
DictSpecInit ==
    /\ DictInit
    /\ PptInit /\ activeWindow = 1 /\ slideOf = [w \in Windows |-> 1]
    /\ workerExists

DictSpec == DictSpecInit /\ [][DictNext]_vars

\* The PowerPoint add-on, the dictation plugin left as it starts
Init == PptInit /\ DictInit /\ speechMode = "talk"

Spec == Init /\ [][Next]_vars

NavSpec == Init /\ [][NavNext]_vars

KeySpec == Init /\ [][KeyNext]_vars

ThreadSpec == Init /\ [][ThreadNext]_vars

\* The PowerPoint add-on with the worker loop scheduled fairly: every step of
\* _run that is ready is eventually taken (the loop never blocks for more
\* than the 500 ms of _pump_messages).
LiveInit == Init /\ workerExists = TRUE

LiveSpec ==
    /\ LiveInit
    /\ [][LiveNext]_vars
    /\ WF_vars(WorkerInitializeCom)
    /\ WF_vars(WorkerSetInitialized)
    /\ WF_vars(WorkerPumpDone)
    /\ WF_vars(WorkerRequests)

----------------------------------------------------------------------------
(* The claims.                                                             *)

C2_RoundTrip ==
    (/\ filterCalled /\ pressActive
     /\ phase = "decided" \/ (phase = "scripted" /\ key = OtherKey))
    => /\ speechMode = modeBeforeActivation
       /\ ~voice_typing_active
       /\ previous_speech_mode = None
       /\ ~filterRegistered /\ ~gesture_filter_installed

C2_Witness ==
    /\ filterCalled /\ pressActive /\ phase = "scripted" /\ key = OtherKey
    /\ modeBeforeActivation = "beeps" /\ speechMode = "beeps"
    /\ ~filterRegistered

\* C3: a Win+H pressed while voice typing mode is active restores speech: once
\* the gesture filter and then script_toggleVoiceTyping have run for that
\* press, the speech mode equals the mode saved at activation and
\* _voice_typing_active is False.
C3_WinHWhileActiveRestores ==
    (phase = "scripted" /\ key = WinH /\ pressActive /\ filterCalled /\ scriptRun)
    => (speechMode = modeBeforeActivation /\ ~voice_typing_active)

\* the state the second Win+H leaves behind: dictation toggled off by the
\* press, yet speech is off again and voice typing mode is active
C3_Witness ==
    /\ phase = "scripted" /\ key = WinH /\ pressActive /\ filterCalled
    /\ scriptRun /\ modeBeforeActivation = "talk"
    /\ speechMode = Off /\ voice_typing_active

\* C4: the plugin never swallows a key: _gesture_filter returns True for every
\* gesture in every plugin state, and script_toggleVoiceTyping forwards Win+H
\* with gesture.send() exactly once per press, active or not.
C4_NeverSwallows ==
    /\ filterCalled => filterReturn
    /\ (phase = "scripted" /\ scriptRun) => sends = 1
    /\ (phase = "decided" \/ ~scriptRun) => sends = 0

C4_Witness ==
    /\ phase = "scripted" /\ key = WinH /\ scriptRun
    /\ pressActive /\ filterCalled /\ filterReturn /\ sends = 1

\* C5: terminate() called while voice typing mode is active leaves the gesture
\* filter unregistered and the speech mode equal to the mode saved at
\* activation; called while inactive it leaves the speech mode unchanged.
C5_TerminateRestores ==
    [][Terminate =>
          /\ voice_typing_active =>
                (~filterRegistered' /\ speechMode' = modeBeforeActivation)
          /\ ~voice_typing_active => speechMode' = speechMode]_vars

C5_Witness ==
    /\ ~pluginLoaded /\ voice_typing_active /\ previous_speech_mode = "talk"
    /\ ~filterRegistered /\ speechMode = "talk" /\ modeBeforeActivation = "talk"

IsCommentStatus(msg) == msg[1] \in {"No comments", "Has N comments"}
CommentStatusAnnounced ==
    \E n \in 1..Len(announced) : IsCommentStatus(announced[n])

\* C6: a WindowSelectionChange / on_slide_changed_event call whose slide index
\* equals _last_announced_slide queues no announcement and changes no view;
\* so does the second of two consecutive events for the same slide index (the
\* slide's announcements are produced at most once).
C6_DuplicateSuppressed ==
    [][\A w \in Windows :
          (/\ EventWindowSelectionChange(w)
           /\ slideOf[w] = last_announced_slide \/ slideOf[w] = lastEvent)
          => (announced' = <<>> /\ viewType' = viewType
              /\ last_announced_slide' = last_announced_slide)]_vars

C6_Witness ==
    /\ pc = "pump" /\ lastEvent # NoSlide
    /\ lastEvent = last_announced_slide
    /\ current_window # NoWindow /\ viewType[current_window] # PP_VIEW_NORMAL
    /\ announced = <<>>

\* C7: while the application has never received focus, _check_initial_slide
\* queues no announcement and leaves _last_announced_slide unchanged (the only
\* message _initialize_com can queue then is the view switch of
\* _ensure_normal_view).
C7_NoAnnouncementBeforeFocus ==
    [][(WorkerInitializeCom /\ ~has_received_focus) =>
          /\ last_announced_slide' = last_announced_slide
          /\ \A n \in 1..Len(announced') :
                announced'[n] = <<"Switched to Normal view", 0>>]_vars

C7_Witness ==
    /\ pc = "startDone" /\ ppt_app /\ ~has_received_focus
    /\ last_announced_slide = NoSlide /\ announced = <<>>

\* C8: if NVDA starts while PowerPoint has an open presentation but no focus,
\* then after the first event_appModule_gainFocus the worker eventually queues
\* the comment-status announcement (fair worker loop, COM calls succeed, no
\* slide show).
C8_AnnouncedAfterFocus == <>has_received_focus => <>CommentStatusAnnounced

\* the state the lost request leaves behind: focus received, the worker
\* initialized and idle in its loop, the slide never announced
C8_Witness ==
    /\ has_received_focus /\ initialized /\ pc = "pump"
    /\ last_announced_slide = NoSlide /\ announced = <<>>

\* C9: a re-initialization (focus regained) while the current slide index
\* equals _last_announced_slide queues no comment announcement.
C9_NoReannouncementOnReinit ==
    [][(/\ WorkerInitializeCom /\ pc = "reinit" /\ has_received_focus
        /\ GetCurrentSlideIndex(PState) = last_announced_slide)
       => (\A n \in 1..Len(announced') : ~IsCommentStatus(announced'[n]))]_vars

C9_Witness ==
    /\ pc = "reinitDone" /\ has_received_focus /\ ~slideShowRunning
    /\ last_announced_slide # NoSlide
    /\ GetCurrentSlideIndex(PState) = last_announced_slide
    /\ sink_last_slide_index = NoSlide
    /\ announced = <<>>

\* C10: on each PageDown / PageUp press exactly one of two things happens: if
\* focus is in the Comments pane and a worker exists,
\* request_navigate(+1 / -1, from_comments_pane=True) is issued and the key is
\* not sent to PowerPoint; otherwise the key is passed through with
\* gesture.send() and no navigation request is made.
PageKeyOutcome(chain, direction) ==
    IF IsInCommentsPane(chain) /\ workerExists
    THEN /\ nav_request' = direction
         /\ from_comments_navigation' = TRUE
         /\ keySent' = 0
    ELSE /\ keySent' = 1
         /\ nav_request' = nav_request
         /\ from_comments_navigation' = from_comments_navigation

C10_PageKeys ==
    [][\A c \in FocusChains :
          /\ ScriptNextSlide(c) => PageKeyOutcome(c, 1)
          /\ ScriptPreviousSlide(c) => PageKeyOutcome(c, -1)]_vars

C10_Witness ==
    /\ workerExists /\ keySent = 0
    /\ nav_request = -1 /\ from_comments_navigation

\* C11: _navigate_slide bounds: with current slide index c of the window read
\* and direction d, GotoSlide is called (once) with c+d exactly when
\* 1 <= c+d <= N; when c+d < 1 'First slide' is announced, when c+d > N
\* 'Last slide' is announced, and in both cases the method returns False,
\* GotoSlide is not called and no slide changes.
C11_NavigateBounds ==
    [][(WorkerRequests /\ nav_request # NoRequest) =>
          LET window == GetWindow(PState)
              c == slideOf[window]
              n == c + nav_request
              ret == NavigateSlideReturn(PState, nav_request)
          IN  /\ window # NoWindow
              /\ n < 1 => /\ gotoCalls' = <<>> /\ slideOf' = slideOf /\ ~ret
                           /\ Len(announced') >= 1
                           /\ announced'[1] = <<"First slide", 0>>
              /\ n > NumSlides =>
                           /\ gotoCalls' = <<>> /\ slideOf' = slideOf /\ ~ret
                           /\ Len(announced') >= 1
                           /\ announced'[1] = <<"Last slide", 0>>
              /\ (1 <= n /\ n <= NumSlides) =>
                           /\ gotoCalls' = <<n>> /\ ret
                           /\ slideOf' = [slideOf EXCEPT ![window] = n]
                           /\ \A k \in 1..Len(announced') :
                                 announced'[k][1] \notin {"First slide", "Last slide"}]_vars

\* a PageDown on the last slide has been served: announced, nothing called
C11_Witness ==
    /\ pc = "pump" /\ nav_request = NoRequest /\ gotoCalls = <<>>
    /\ Len(announced) >= 1 /\ announced[1] = <<"Last slide", 0>>
    /\ slideOf[GetWindow(PState)] = NumSlides

\* C12: navigation requests are queued: every request_navigate(d) results in
\* exactly one later _navigate_slide(d). At every moment the requests not yet
\* executed are exactly the one held in _nav_request, if any (none has been
\* dropped, none is executed without having been requested).
C12_NoRequestLost ==
    navPending = IF nav_request = NoRequest THEN <<>> ELSE <<nav_request>>

\* the state a dropped request leaves behind: the worker is back in its loop
\* with nothing to execute, and a PageDown was never acted upon
C12_Witness ==
    /\ pc = "pump" /\ nav_request = NoRequest /\ navPending = <<1>>

\* what the worker holds of PowerPoint: its COM objects and what they show
ComState(s) == <<s.app, s.cw, s.sink, s.sinkLast, s.aw, s.slide, s.view, s.show>>

\* the request flags the main thread writes
RequestFlags(s) == <<s.has, s.init, s.nav, s.from, s.notes>>

\* a state with other COM objects and other contents behind them
OtherCom(s) ==
    [s EXCEPT !.app = ~s.app, !.cw = NoWindow, !.sink = ~s.sink,
              !.sinkLast = NoSlide, !.aw = 1,
              !.slide = [w \in Windows |-> 1],
              !.view = [w \in Windows |-> PP_VIEW_SLIDE_SORTER],
              !.show = ~s.show]

MainThreadAction ==
    \/ AppGainFocus
    \/ \E c \in FocusChains : ScriptNextSlide(c) \/ ScriptPreviousSlide(c)
    \/ ScriptReadSlideNotes

\* C13: COM thread affinity: the main-thread entry points (request_initialize,
\* request_navigate, request_read_notes, the three scripts) only write request
\* flags: a step of theirs leaves the worker's COM objects and everything
\* behind them as they are, queues no announcement and calls no GotoSlide,
\* and what they write does not depend on any COM object (it is the same
\* with other objects in their place). Navigation, reads and announcements
\* are made by steps of the worker thread only.
C13_ComOnWorkerOnly ==
    /\ [][MainThreadAction =>
            /\ ComState(PState)' = ComState(PState)
            /\ last_announced_slide' = last_announced_slide
            /\ in_slideshow' = in_slideshow
            /\ UNCHANGED <<announced, gotoCalls, pc>>]_vars
    /\ [](\E s \in {PState} : \E o \in {OtherCom(s)} :
            /\ RequestFlags(RequestInitialize(o))
                 = RequestFlags(RequestInitialize(s))
            /\ RequestFlags(RequestReadNotes(o))
                 = RequestFlags(RequestReadNotes(s))
            /\ \A d \in {1, -1} :
                  /\ \A f \in BOOLEAN :
                        RequestFlags(RequestNavigate(o, d, f))
                          = RequestFlags(RequestNavigate(s, d, f))
                  /\ \A c \in FocusChains :
                        RequestFlags(ScriptSlideFromComments(o, c, workerExists, d).state)
                          = RequestFlags(ScriptSlideFromComments(s, c, workerExists, d).state))

\* a PageDown from the Comments pane has been requested on the main thread
\* while the worker, connected to PowerPoint, has not yet served it
C13_Witness ==
    /\ ppt_app /\ event_sink /\ has_received_focus
    /\ nav_request = 1 /\ from_comments_navigation /\ read_notes_request
    /\ gotoCalls = <<>> /\ announced = <<>>

\* the place of a message in the announcement of a slide (0: not part of it)
MsgRank(msg) ==
    IF msg[1] \in {"N: title", "Slide N"} THEN 1
    ELSE IF IsCommentStatus(msg) THEN 2
    ELSE IF msg[1] = "has notes" THEN 3
    ELSE 0

\* C14: announcement order: outside a slide show, the messages that
\* _announce_slide_comments puts on the event queue in one call are, in queue
\* order, (1) the slide number/title, at most once and only on a navigation
\* from the Comments pane, (2) exactly one of 'No comments' / 'Has N
\* comment(s)', N being the slide's comment count, (3) 'has notes', exactly
\* when the slide's notes carry the **** marker.
C14_AnnouncementOrder ==
    [][\A w \in Windows :
          (/\ EventWindowSelectionChange(w) /\ ~slideShowRunning /\ ppt_app
           /\ slideOf[w] # sink_last_slide_index
           /\ slideOf[w] # last_announced_slide)
          => LET q == announced'
                 ranked == {n \in 1..Len(q) : MsgRank(q[n]) > 0}
                 count == CommentCount(w, slideOf[w])
             IN  /\ \A m, n \in ranked : m < n => MsgRank(q[m]) < MsgRank(q[n])
                 /\ \A m \in 1..Len(q) : MsgRank(q[m]) = 0 => m \notin ranked /\ m = 1
                 /\ Cardinality({n \in ranked : MsgRank(q[n]) = 2}) = 1
                 /\ \A n \in ranked :
                       /\ MsgRank(q[n]) = 2 =>
                             q[n] = IF count = 0 THEN <<"No comments", 0>>
                                    ELSE <<"Has N comments", count>>
                       /\ MsgRank(q[n]) = 1 =>
                             /\ from_comments_navigation
                             /\ q[n] = IF HasTitle(w, slideOf[w])
                                       THEN <<"N: title", slideOf[w]>>
                                       ELSE <<"Slide N", slideOf[w]>>
                 /\ (\E n \in ranked : MsgRank(q[n]) = 3)
                       <=> NotesMarked(w, slideOf[w])
                 /\ from_comments_navigation =>
                       \E n \in ranked : MsgRank(q[n]) = 1]_vars

\* all three parts were queued by one event, after a navigation from the
\* Comments pane
C14_Witness ==
    /\ Len(announced) = 3
    /\ MsgRank(announced[1]) = 1 /\ MsgRank(announced[2]) = 2
    /\ announced[3] = <<"has notes", 0>>

\* C15: multiple presentations: once a selection change raised by the
\* window w of the presentation the user is in has been handled, the window
\* the worker reads from (slide index, comments, notes, navigation target:
\* the one _get_window returns) is w, not a window stored before.
C15_ReadsLatestEventWindow ==
    [][\A w \in Windows :
          (EventWindowSelectionChange(w) /\ ppt_app /\ w = activeWindow)
          => GetWindow(PState)' = w]_vars

\* the state the ignored event leaves behind: a selection change has just
\* been handled, in a loop that has announced a slide, and the worker still
\* reads from the window of the presentation the user has left
C15_Witness ==
    /\ pc = "pump" /\ lastEvent # NoSlide /\ announced = <<>>
    /\ lastEvent = slideOf[activeWindow]
    /\ current_window # NoWindow /\ current_window # activeWindow
    /\ slideOf[current_window] = slideOf[activeWindow]
====
